---- MODULE Spec2Model ----
(***************************************************************************)
(* State-machine model of the ELAG finance tracker (React single-page app). *)
(* The state is the browser's localStorage, the React state of App, Auth,   *)
(* Scanner and TransactionsList, the asynchronous work in flight, and the   *)
(* state of one call into the generative-AI service module.                 *)
(*                                                                          *)
(* React runs the passive effects of a commit before it handles the next    *)
(* event, so event handlers are enabled only in settled states; the effects *)
(* of one commit are one action (RunEffects).                               *)
(***************************************************************************)
EXTENDS Integers, Sequences, FiniteSets, TLC

\* ---------------------------------------------------------------- bounds
\* number of crypto.randomUUID() values a behaviour may draw
MaxUuid == 3
\* number of receipt scans that may be in flight at the same time
MaxScans == 2
\* number of calls of the AI service a behaviour observes
MaxCalls == 3
\* number of months the budget statement may be paged away from this month
MaxMonthSteps == 2
\* number of budget plans that may be in generation at the same time
MaxPlans == 1

\* ------------------------------------------------------- JavaScript values
\* the value undefined of a string-valued property (also: property absent)
Undefined == "<undefined>"
\* the number NaN (parseFloat of a non-numeric input)
NaN == 0 - 999999
\* the JSON value null where a number is expected (JSON.stringify(NaN))
JsonNull == 0 - 999998
\* a numeric property that is absent from a JSON object
NoNumber == 0 - 999997

\* JavaScript truthiness of a string / of a number
TruthyStr(s) == s # "" /\ s # Undefined
TruthyNum(n) == n # 0 /\ n # NaN /\ n # JsonNull /\ n # NoNumber

\* optional values: <<>> is null, <<v>> is v
Null == <<>>
Some(v) == <<v>>
IsNull(o) == Len(o) = 0
Val(o) == o[1]

INCOME == "INCOME"
EXPENSE == "EXPENSE"

\* new Date().toISOString().split('T')[0]
Today == "2023-12-17"

\* the k-th value returned by crypto.randomUUID()
RandomUUID(k) == 100 + k
UUIDs == {RandomUUID(k) : k \in 1..MaxUuid}

\* ------------------------------------------------------------ seed data
Tx(i, d, m, a, c, t) ==
  [id |-> i, date |-> d, merchant |-> m, amount |-> a, category |-> c,
   type |-> t, description |-> Undefined]

\* amounts are in cents
INITIAL_TRANSACTIONS ==
  << Tx(1, "2023-10-01", "TechCorp Salary", 450000, "Income", INCOME),
     Tx(2, "2023-10-02", "Starbucks", 1250, "Food & Drink", EXPENSE),
     Tx(3, "2023-10-05", "Whole Foods", 14520, "Groceries", EXPENSE),
     Tx(4, "2023-10-08", "Netflix", 1599, "Entertainment", EXPENSE),
     Tx(5, "2023-10-10", "Uber", 2400, "Transport", EXPENSE),
     Tx(6, "2023-10-15", "Electric Bill", 12000, "Utilities", EXPENSE),
     Tx(7, "2023-10-20", "Amazon", 6550, "Shopping", EXPENSE),
     Tx(8, "2023-10-22", "Local Bistro", 8500, "Food & Drink", EXPENSE) >>

\* ------------------------------------------------------------------ JSON
\* JSON.stringify of a transaction: a property whose value is undefined is
\* left out, NaN is written as null
StringifyTx(t) ==
  LET a == IF t.amount = NaN THEN JsonNull ELSE t.amount
      r == [t EXCEPT !.amount = a]
  IN  IF t.description = Undefined
        THEN [k \in (DOMAIN r) \ {"description"} |-> r[k]]
        ELSE r

\* JSON.stringify(transactions): the text kept in localStorage
StringifyTxs(txs) == [i \in 1..Len(txs) |-> StringifyTx(txs[i])]

\* JSON.parse of one stored transaction; reading an absent property gives
\* undefined
ParseTx(j) ==
  [id |-> j.id, date |-> j.date, merchant |-> j.merchant, amount |-> j.amount,
   category |-> j.category, type |-> j.type,
   description |-> IF "description" \in DOMAIN j THEN j.description
                   ELSE Undefined]

ParseTxs(text) == [i \in 1..Len(text) |-> ParseTx(text[i])]

\* the session record { id, name, email } and its JSON text
SessionUser(u) == [id |-> u.id, name |-> u.name, email |-> u.email]
StringifyUser(u) == [id |-> u.id, name |-> u.name, email |-> u.email]
ParseUser(text) == [id |-> text.id, name |-> text.name, email |-> text.email]

\* ------------------------------------------------ the AI service module
\* what the hosted model does with one request: the request is rejected, or
\* the response carries no text, text that is not JSON, the JSON text null,
\* or the JSON text of a value
Throws == [kind |-> "throws", value |-> ""]
NoText == [kind |-> "empty", value |-> ""]
NotJson == [kind |-> "invalid", value |-> ""]
JsonNullText == [kind |-> "null", value |-> ""]
JsonText(v) == [kind |-> "json", value |-> v]

NoReply == [kind |-> "none", value |-> ""]

\* what a call of a service function comes to
Returned(v) == [status |-> "returned", value |-> v]
ReturnedNull == [status |-> "returnedNull", value |-> ""]
ReturnedUndefined == [status |-> "returnedUndefined", value |-> ""]
Threw == [status |-> "threw", value |-> ""]

\* {} and []
EmptyObject == << >>
EmptyList == << >>

\* parseReceiptImage: any failure is logged and thrown again
parseReceiptImage(reply) ==
  CASE reply.kind = "throws" -> Threw
    [] reply.kind = "empty" -> Threw
    [] reply.kind = "invalid" -> Threw
    [] reply.kind = "null" -> ReturnedNull
    [] OTHER -> Returned(reply.value)

FallbackMetric ==
  [score |-> 50, status |-> "Warning",
   cashFlowStatus |-> "Unable to analyze at this moment.",
   projectedSavings |-> 0, risks |-> << "Data unavailable" >>,
   recommendations |-> << "Try again later" >>]

\* analyzeFinancialHealth whose catch block throws the error again
analyzeFinancialHealthRethrow(reply) ==
  CASE reply.kind = "throws" -> Threw
    [] reply.kind = "empty" -> Returned(EmptyObject)
    [] reply.kind = "invalid" -> Threw
    [] reply.kind = "null" -> ReturnedNull
    [] OTHER -> Returned(reply.value)

\* analyzeFinancialHealth: JSON.parse(result.text || "{}"), else the fallback
analyzeFinancialHealth(reply) ==
  CASE reply.kind = "throws" -> Returned(FallbackMetric)
    [] reply.kind = "empty" -> Returned(EmptyObject)
    [] reply.kind = "invalid" -> Returned(FallbackMetric)
    [] reply.kind = "null" -> ReturnedNull
    [] OTHER -> Returned(reply.value)

CoachApology ==
  "I'm having trouble connecting to my financial database right now. Please try again in a moment."

\* getCoachResponse: result.text as it is, else the apology
getCoachResponse(reply) ==
  CASE reply.kind = "throws" -> Returned(CoachApology)
    [] reply.kind = "empty" -> ReturnedUndefined
    [] reply.kind = "invalid" -> Returned("not json")
    [] reply.kind = "null" -> Returned("null")
    [] OTHER -> Returned(reply.value)

FallbackBudget == [General |-> 1000]

\* generateBudgetPlan: parsed.budget || parsed; reading .budget of null throws
\* inside the try block
generateBudgetPlan(reply) ==
  CASE reply.kind = "throws" -> Returned(FallbackBudget)
    [] reply.kind = "empty" -> Returned(EmptyObject)
    [] reply.kind = "invalid" -> Returned(FallbackBudget)
    [] reply.kind = "null" -> Returned(FallbackBudget)
    [] OTHER -> IF "budget" \in DOMAIN reply.value
                  THEN Returned(reply.value.budget)
                  ELSE Returned(reply.value)

\* generateSmartInsights, detectAnomalies, predictCashFlow:
\* JSON.parse(result.text || "[]"), else []
listOrEmpty(reply) ==
  CASE reply.kind = "throws" -> Returned(EmptyList)
    [] reply.kind = "empty" -> Returned(EmptyList)
    [] reply.kind = "invalid" -> Returned(EmptyList)
    [] reply.kind = "null" -> ReturnedNull
    [] OTHER -> Returned(reply.value)

generateSmartInsights(reply) == listOrEmpty(reply)
detectAnomalies(reply) == listOrEmpty(reply)
predictCashFlow(reply) == listOrEmpty(reply)

ServiceFunctions ==
  {"parseReceiptImage", "analyzeFinancialHealth", "getCoachResponse",
   "generateBudgetPlan", "generateSmartInsights", "detectAnomalies",
   "predictCashFlow"}

\* the six functions that catch and fall back
FallbackFunctions == ServiceFunctions \ {"parseReceiptImage"}

Outcome(fn, reply) ==
  CASE fn = "parseReceiptImage" -> parseReceiptImage(reply)
    [] fn = "analyzeFinancialHealth" -> analyzeFinancialHealth(reply)
    [] fn = "getCoachResponse" -> getCoachResponse(reply)
    [] fn = "generateBudgetPlan" -> generateBudgetPlan(reply)
    [] fn = "generateSmartInsights" -> generateSmartInsights(reply)
    [] fn = "detectAnomalies" -> detectAnomalies(reply)
    [] OTHER -> predictCashFlow(reply)

\* the requests a function issues before its await: one generateContent, or
\* one sendMessage on a chat created locally
RequestsOnCall(fn) == 1

\* RequestsOnCatch of a catch block that tries once more
RequestsOnCatchRetry(fn) == 1

\* the requests the catch block of a function issues: none
RequestsOnCatch(fn) == 0

\* ------------------------------------------------------------------ state
VARIABLES
  lsSession,     \* localStorage 'elag_session': Null or the JSON text
  lsUsers,       \* localStorage 'elag_users': Null or the JSON list of users
  lsTx,          \* localStorage 'elag_transactions_<id>', per user id
  uuid,          \* number of crypto.randomUUID() values drawn so far
  mounted,       \* App has run its mount effects (isLoading is false)
  user,          \* App state user: Null or Some(session user)
  transactions,  \* App state transactions
  userDirty,     \* user changed since the effects with dependency user ran
  txDirty,       \* transactions changed since the save effect ran
  currentView,   \* App state currentView
  auth,          \* state of the Auth component and its submit in flight
  scanner,       \* state of the mounted Scanner component
  scans,         \* receipt scans in flight (of this or an unmounted Scanner),
                 \* each with the id of the user who started it
  form,          \* state of the mounted TransactionsList component
  event,         \* the handler that ran last and the callbacks it called
  ai,            \* the call into the AI service module under observation
  lsBudgets,     \* localStorage 'elag_budgets_<id>', per user id
  budget,        \* state of the BudgetStatement component and its AI calls
  addedBy        \* history: per transaction id, the id of the user in whose
                 \* session the form was submitted or the scan was started

vars == << lsSession, lsUsers, lsTx, uuid, mounted, user, transactions,
           userDirty, txDirty, currentView, auth, scanner, scans, form,
           event, ai, lsBudgets, budget, addedBy >>

storageVars == << lsSession, lsUsers, lsTx >>

NoError == "<null>"

\* useState initial values of Auth (src/components/Auth.tsx 11-21)
AuthInit == [isLogin |-> TRUE, loading |-> FALSE, error |-> NoError,
             pending |-> Null]

\* useState initial values of Scanner; timers counts the pending
\* setTimeout(() => setSuccess(false), 3000) of this instance
ScannerInit == [loading |-> FALSE, error |-> NoError, success |-> FALSE,
                isCameraOpen |-> FALSE, timers |-> 0]

\* useState initial values of TransactionsList
FormDataInit == [type |-> EXPENSE, date |-> Today, amount |-> 0,
                 merchant |-> "", category |-> "General"]
FormInit == [showAddForm |-> FALSE, formData |-> FormDataInit]

\* event: op names the handler, input is what it was given (the receipt of
\* a scan, the form data of a submit), adds counts its calls of onAdd /
\* onAddTransaction, logins its calls of onLogin
EventOn(op, adds, logins, input) ==
  [op |-> op, adds |-> adds, logins |-> logins, input |-> input]
Event(op, adds, logins) == EventOn(op, adds, logins, "")
NoEvent == Event("none", 0, 0)

\* no call of the service module is under observation; calls counts the
\* invocations observed, sent the requests they issued
AiIdle == [fn |-> "none", pc |-> "idle", requests |-> 0, calls |-> 0,
           sent |-> 0, reply |-> NoReply, result |-> Returned("")]

\* every scan in flight belongs to a Scanner that is no longer mounted
Orphaned(ss) == [i \in 1..Len(ss) |-> [ss[i] EXCEPT !.live = FALSE]]

\* the defaults of BudgetStatement, in cents
DefaultBudgets ==
  [c \in {"Food & Drink", "Groceries", "Transport", "Utilities",
          "Entertainment", "Shopping", "Rent/Mortgage"} |->
     CASE c = "Food & Drink" -> 50000
       [] c = "Groceries" -> 40000
       [] c = "Transport" -> 20000
       [] c = "Utilities" -> 30000
       [] c = "Entertainment" -> 15000
       [] c = "Shopping" -> 20000
       [] OTHER -> 150000]

\* new Date(): the year and the month (0 to 11) of Today
ThisMonth == [year |-> 2023, month |-> 11]

\* an <input> value: the empty text, or the decimal text of a number
EmptyInput == << >>
NumberText(n) == << n >>

\* useState initial values of BudgetStatement; pending holds the calls of
\* handleAiGenerate in flight (of this or an unmounted BudgetStatement), each
\* with the budgets its closure captured
BudgetInit == [budgets |-> << >>, isEditing |-> Null, editValue |-> EmptyInput,
               currentMonth |-> ThisMonth, isGenerating |-> FALSE,
               pending |-> << >>]

\* JSON.stringify / JSON.parse of the budgets: NaN is written as null
StringifyBudgets(b) ==
  [c \in DOMAIN b |-> IF b[c] = NaN THEN JsonNull ELSE b[c]]
ParseBudgets(text) == [c \in DOMAIN text |-> text[c]]

\* the mount effect of BudgetStatement: the budgets it sets
BudgetLoad(session, store) ==
  IF ~IsNull(session)
    THEN IF ~IsNull(store[ParseUser(Val(session)).id])
           THEN ParseBudgets(Val(store[ParseUser(Val(session)).id]))
           ELSE DefaultBudgets
    ELSE << >>

\* BudgetStatement mounts and runs its effect / unmounts; a call in flight
\* stays in flight
BudgetMount(b, session, store) ==
  [BudgetInit EXCEPT !.budgets = BudgetLoad(session, store),
                     !.pending = Orphaned(b.pending)]
BudgetUnmount(b) == [BudgetInit EXCEPT !.pending = Orphaned(b.pending)]

Init ==
  /\ lsSession = Null
  /\ lsUsers = Null
  /\ lsTx = [k \in UUIDs |-> Null]
  /\ uuid = 0
  /\ mounted = FALSE
  /\ user = Null
  /\ transactions = << >>
  /\ userDirty = FALSE
  /\ txDirty = FALSE
  /\ currentView = "DASHBOARD"
  /\ auth = AuthInit
  /\ scanner = ScannerInit
  /\ scans = << >>
  /\ form = FormInit
  /\ event = NoEvent
  /\ ai = AiIdle
  /\ lsBudgets = [k \in UUIDs |-> Null]
  /\ budget = BudgetInit
  /\ addedBy = [k \in UUIDs |-> 0]

\* no effect is pending: the page shows what the state says
Settled == mounted /\ ~userDirty /\ ~txDirty

\* --------------------------------------------------------- App effects
\* LoadEffect that does not look for stored data
LoadEffectSeedAlways(u, store) ==
  IF ~IsNull(u) THEN INITIAL_TRANSACTIONS ELSE << >>

\* effect 2 (load): the list the effect passes to setTransactions
LoadEffect(u, store) ==
  IF ~IsNull(u)
    THEN IF ~IsNull(store[Val(u).id])
           THEN ParseTxs(Val(store[Val(u).id]))
           ELSE INITIAL_TRANSACTIONS
    ELSE << >>

\* effect 3 (save): localStorage after the effect ran
SaveEffect(u, txs, store) ==
  IF ~IsNull(u) /\ Len(txs) > 0
    THEN [store EXCEPT ![Val(u).id] = Some(StringifyTxs(txs))]
    ELSE store

\* SessionEffect that never restores a session
SessionEffectNone(session) == Null

\* effect 1 (session check): the user passed to setUser, Null if none
SessionEffect(session) ==
  IF ~IsNull(session) THEN Some(ParseUser(Val(session))) ELSE Null

\* the effects of the first commit: session check, load (user is null),
\* save (user is null); setUser and setTransactions([]) are batched
Mount ==
  /\ ~mounted
  /\ mounted' = TRUE
  /\ user' = SessionEffect(lsSession)
  /\ transactions' = LoadEffect(user, lsTx)
  /\ lsTx' = SaveEffect(user, transactions, lsTx)
  /\ userDirty' = ~IsNull(SessionEffect(lsSession))
  /\ txDirty' = TRUE
  /\ event' = Event("mount", 0, 0)
  /\ UNCHANGED << ai, addedBy, lsBudgets, budget, lsSession, lsUsers, uuid, currentView, auth, scanner,
                  scans, form >>

\* the effects of a later commit, in source order: load runs when user
\* changed, save when user or transactions changed; both see the values of
\* that render, the list the load effect sets is rendered next
RunEffects ==
  /\ mounted
  /\ userDirty \/ txDirty
  /\ lsTx' = SaveEffect(user, transactions, lsTx)
  /\ transactions' = IF userDirty THEN LoadEffect(user, lsTx)
                     ELSE transactions
  /\ txDirty' = userDirty
  /\ userDirty' = FALSE
  /\ budget' = IF userDirty /\ ~IsNull(user) /\ currentView = "BUDGETS"
                 THEN BudgetMount(budget, lsSession, lsBudgets)
                 ELSE budget
  /\ UNCHANGED << ai, addedBy, lsBudgets, lsSession, lsUsers, uuid, mounted, user,
                  currentView, auth, scanner, scans, form, event >>

\* the browser reloads the page: all in-memory state and all work in flight
\* is gone, localStorage stays
Reload ==
  /\ mounted
  /\ mounted' = FALSE
  /\ user' = Null
  /\ transactions' = << >>
  /\ userDirty' = FALSE
  /\ txDirty' = FALSE
  /\ currentView' = "DASHBOARD"
  /\ auth' = AuthInit
  /\ scanner' = ScannerInit
  /\ scans' = << >>
  /\ form' = FormInit
  /\ budget' = BudgetInit
  /\ event' = Event("reload", 0, 0)
  /\ UNCHANGED << ai, addedBy, lsBudgets, lsSession, lsUsers, lsTx, uuid >>

\* ------------------------------------------------------- App handlers
\* handleLogin: setUser(loggedInUser)
handleLogin(loggedInUser) ==
  /\ user' = Some(loggedInUser)
  /\ userDirty' = TRUE

\* LogoutSession that leaves the session in place
LogoutSessionKept(session) == session

\* what handleLogout does to localStorage 'elag_session'
LogoutSession(session) == Null

\* handleLogout; the views unmount, Auth mounts afresh
handleLogout ==
  /\ Settled
  /\ ~IsNull(user)
  /\ lsSession' = LogoutSession(lsSession)
  /\ user' = Null
  /\ userDirty' = TRUE
  /\ auth' = AuthInit
  /\ scanner' = ScannerInit
  /\ scans' = Orphaned(scans)
  /\ form' = FormInit
  /\ budget' = BudgetUnmount(budget)
  /\ event' = Event("logout", 0, 0)
  /\ UNCHANGED << ai, addedBy, lsBudgets, lsUsers, lsTx, uuid, mounted, transactions, txDirty,
                  currentView >>

\* addTransaction: setTransactions(prev => [...prev, t])
addTransaction(t) ==
  /\ transactions' = Append(transactions, t)
  /\ txDirty' = TRUE

\* FilterOut that removes the row with the id and every row after it
FilterOutRest(txs, id) ==
  LET hits == {i \in 1..Len(txs) : txs[i].id = id}
  IN  IF hits = {} THEN txs
      ELSE SubSeq(txs, 1, (CHOOSE i \in hits : \A j \in hits : i <= j) - 1)

\* prev.filter(t => t.id !== id)
FilterOut(txs, id) == SelectSeq(txs, LAMBDA t : t.id # id)

\* deleteTransaction: setTransactions(prev => prev.filter(...))
deleteTransaction(id) ==
  /\ transactions' = FilterOut(transactions, id)
  /\ txDirty' = TRUE

\* a sidebar NavItem: setCurrentView(view); the view shown before unmounts
Navigate(view) ==
  /\ Settled
  /\ ~IsNull(user)
  /\ view # currentView
  /\ currentView' = view
  /\ scanner' = ScannerInit
  /\ scans' = Orphaned(scans)
  /\ form' = FormInit
  /\ budget' = IF view = "BUDGETS"
                 THEN BudgetMount(budget, lsSession, lsBudgets)
                 ELSE BudgetUnmount(budget)
  /\ event' = Event("navigate", 0, 0)
  /\ UNCHANGED << ai, addedBy, lsBudgets, lsSession, lsUsers, lsTx, uuid, mounted, user,
                  transactions, userDirty, txDirty, auth >>

\* ---------------------------------------------------------------- Auth
AuthMounted == mounted /\ IsNull(user)

\* FindLogin that does not compare the password
FindLoginByEmail(users, email, password) ==
  LET hits == {i \in 1..Len(users) : users[i].email = email}
  IN  IF hits = {} THEN Null
      ELSE Some(users[CHOOSE i \in hits : \A j \in hits : i <= j])

\* users.find(u => u.email === email && u.password === password)
FindLogin(users, email, password) ==
  LET hits == {i \in 1..Len(users) :
                 users[i].email = email /\ users[i].password = password}
  IN  IF hits = {} THEN Null
      ELSE Some(users[CHOOSE i \in hits : \A j \in hits : i <= j])

\* users.find(u => u.email === email)
FindEmail(users, email) ==
  LET hits == {i \in 1..Len(users) : users[i].email = email}
  IN  IF hits = {} THEN Null
      ELSE Some(users[CHOOSE i \in hits : \A j \in hits : i <= j])

\* storedUsers ? JSON.parse(storedUsers) : []
StoredUsers == IF IsNull(lsUsers) THEN << >> ELSE Val(lsUsers)

\* the link under the form: setIsLogin(!isLogin); setError(null)
AuthToggle ==
  /\ Settled
  /\ AuthMounted
  /\ auth' = [auth EXCEPT !.isLogin = ~auth.isLogin, !.error = NoError]
  /\ event' = Event("toggle", 0, 0)
  /\ UNCHANGED << ai, addedBy, lsBudgets, budget, lsSession, lsUsers, lsTx, uuid, mounted, user,
                  transactions, userDirty, txDirty, currentView, scanner,
                  scans, form >>

\* handleSubmit up to the await: the button is disabled while loading; the
\* closure keeps isLogin, name, email and password of this render
AuthSubmit(name, email, password) ==
  /\ Settled
  /\ AuthMounted
  /\ ~auth.loading
  /\ auth' = [auth EXCEPT !.error = NoError, !.loading = TRUE,
                !.pending = Some([isLogin |-> auth.isLogin, name |-> name,
                                  email |-> email, password |-> password])]
  /\ event' = Event("submit", 0, 0)
  /\ UNCHANGED << ai, addedBy, lsBudgets, budget, lsSession, lsUsers, lsTx, uuid, mounted, user,
                  transactions, userDirty, txDirty, currentView, scanner,
                  scans, form >>

\* handleSubmit after the await, login branch
AuthLogin(p) ==
  LET found == FindLogin(StoredUsers, p.email, p.password)
  IN  IF ~IsNull(found)
        THEN /\ lsSession' = Some(StringifyUser(SessionUser(Val(found))))
             /\ handleLogin(SessionUser(Val(found)))
             /\ auth' = AuthInit
             /\ event' = EventOn("login", 0, 1, p)
             /\ UNCHANGED << lsUsers, uuid >>
        ELSE /\ auth' = [auth EXCEPT !.error = "Invalid email or password.",
                           !.loading = FALSE, !.pending = Null]
             /\ event' = EventOn("login", 0, 0, p)
             /\ UNCHANGED << lsSession, lsUsers, uuid, user, userDirty >>

\* FieldsFilled that does not look at the password
FieldsFilledButPassword(p) == p.name # "" /\ p.email # ""

\* the test that lets a sign-up through to the duplicate check
FieldsFilled(p) == p.name # "" /\ p.email # "" /\ p.password # ""

\* EmailTaken that compares the email with the names
EmailTakenByName(users, email) ==
  \E i \in 1..Len(users) : users[i].name = email

\* the test that rejects a sign-up as a duplicate
EmailTaken(users, email) == ~IsNull(FindEmail(users, email))

\* handleSubmit after the await, sign-up branch
AuthSignup(p) ==
  IF ~FieldsFilled(p)
    THEN /\ auth' = [auth EXCEPT !.error = "Please fill in all fields.",
                       !.loading = FALSE, !.pending = Null]
         /\ event' = EventOn("signup", 0, 0, p)
         /\ UNCHANGED << lsSession, lsUsers, uuid, user, userDirty >>
    ELSE IF EmailTaken(StoredUsers, p.email)
      THEN /\ auth' = [auth EXCEPT
                         !.error = "Email already exists. Please login.",
                         !.loading = FALSE, !.pending = Null]
           /\ event' = EventOn("signup", 0, 0, p)
           /\ UNCHANGED << lsSession, lsUsers, uuid, user, userDirty >>
      ELSE LET newUser == [id |-> RandomUUID(uuid + 1), name |-> p.name,
                           email |-> p.email, password |-> p.password]
           IN  /\ uuid < MaxUuid
               /\ uuid' = uuid + 1
               /\ lsUsers' = Some(Append(StoredUsers, newUser))
               /\ lsSession' = Some(StringifyUser(SessionUser(newUser)))
               /\ handleLogin(SessionUser(newUser))
               /\ auth' = AuthInit
               /\ event' = EventOn("signup", 0, 1, p)

\* handleSubmit after the 800 ms await
AuthComplete ==
  /\ Settled
  /\ ~IsNull(auth.pending)
  /\ IF Val(auth.pending).isLogin
       THEN AuthLogin(Val(auth.pending))
       ELSE AuthSignup(Val(auth.pending))
  /\ UNCHANGED << ai, addedBy, lsBudgets, budget, lsTx, mounted, transactions, txDirty, currentView,
                  scanner, scans, form >>

\* ---------------------------------------------------- TransactionsList
ListMounted == mounted /\ ~IsNull(user) /\ currentView = "TRANSACTIONS"

\* the 'Add Manual' / 'Cancel' button: setShowAddForm(!showAddForm)
ToggleAddForm ==
  /\ Settled
  /\ ListMounted
  /\ form' = [form EXCEPT !.showAddForm = ~form.showAddForm]
  /\ event' = Event("toggleForm", 0, 0)
  /\ UNCHANGED << ai, addedBy, lsBudgets, budget, lsSession, lsUsers, lsTx, uuid, mounted, user,
                  transactions, userDirty, txDirty, currentView, auth,
                  scanner, scans >>

\* an onChange of one form input: setFormData({...formData, [field]: value});
\* the amount input passes parseFloat(e.target.value)
FormChange(field, value) ==
  /\ Settled
  /\ ListMounted
  /\ form.showAddForm
  /\ form.formData[field] # value
  /\ form' = [form EXCEPT !.formData[field] = value]
  /\ event' = Event("change", 0, 0)
  /\ UNCHANGED << ai, addedBy, lsBudgets, budget, lsSession, lsUsers, lsTx, uuid, mounted, user,
                  transactions, userDirty, txDirty, currentView, auth,
                  scanner, scans >>

\* FormRejected that does not look at the amount
FormRejectedMerchantOnly(fd) == ~TruthyStr(fd.merchant)

\* the guard of handleSubmit: !formData.merchant || !formData.amount
FormRejected(fd) == ~TruthyStr(fd.merchant) \/ ~TruthyNum(fd.amount)

\* the transaction handleSubmit passes to onAdd
FormTransaction(fd, id) ==
  [id |-> id,
   merchant |-> fd.merchant,
   amount |-> fd.amount,
   date |-> IF TruthyStr(fd.date) THEN fd.date ELSE Today,
   category |-> IF TruthyStr(fd.category) THEN fd.category ELSE "General",
   type |-> IF TruthyStr(fd.type) THEN fd.type ELSE EXPENSE,
   description |-> "Manual Entry"]

\* TransactionsList.handleSubmit
FormSubmit ==
  /\ Settled
  /\ ListMounted
  /\ form.showAddForm
  /\ IF FormRejected(form.formData)
       THEN /\ event' = EventOn("formSubmit", 0, 0, form.formData)
            /\ UNCHANGED << uuid, transactions, txDirty, form >>
       ELSE /\ uuid < MaxUuid
            /\ uuid' = uuid + 1
            /\ addTransaction(FormTransaction(form.formData,
                                              RandomUUID(uuid + 1)))
            /\ form' = FormInit
            /\ event' = EventOn("formSubmit", 1, 0, form.formData)
  /\ addedBy' = IF FormRejected(form.formData) THEN addedBy
                  ELSE [addedBy EXCEPT ![RandomUUID(uuid + 1)] = Val(user).id]
  /\ UNCHANGED << ai, lsBudgets, budget, lsSession, lsUsers, lsTx, mounted, user, userDirty,
                  currentView, auth, scanner, scans >>

\* the trash button of a row: onDelete(t.id)
DeleteRow(id) ==
  /\ Settled
  /\ ListMounted
  /\ \E i \in 1..Len(transactions) : transactions[i].id = id
  /\ deleteTransaction(id)
  /\ event' = EventOn("delete", 0, 0, id)
  /\ UNCHANGED << ai, addedBy, lsBudgets, budget, lsSession, lsUsers, lsTx, uuid, mounted, user, userDirty,
                  currentView, auth, scanner, scans, form >>

\* --------------------------------------------------------------- Scanner
ScannerMounted ==
  mounted /\ ~IsNull(user) /\ currentView = "RECEIPT_SCANNER"

RemoveAt(seq, i) == [j \in 1..(Len(seq) - 1) |->
                       IF j < i THEN seq[j] ELSE seq[j + 1]]

\* the first three statements of processReceipt
ProcessStart(sc) == [sc EXCEPT !.loading = TRUE, !.error = NoError,
                               !.success = FALSE]

\* handleFileUpload up to its await: the file input is rendered while
\* neither loading nor the camera is shown
handleFileUpload ==
  /\ Settled
  /\ ScannerMounted
  /\ ~scanner.loading
  /\ ~scanner.isCameraOpen
  /\ Len(scans) < MaxScans
  /\ scans' = Append(scans, [stage |-> "reading", live |-> TRUE,
                            by |-> Val(user).id])
  /\ event' = Event("upload", 0, 0)
  /\ UNCHANGED << ai, addedBy, lsBudgets, budget, lsSession, lsUsers, lsTx, uuid, mounted, user,
                  transactions, userDirty, txDirty, currentView, auth,
                  scanner, form >>

\* fileToGenerativePart resolved: processReceipt runs up to its await; the
\* setters of an unmounted Scanner do nothing
FileRead(i) ==
  /\ Settled
  /\ i \in 1..Len(scans)
  /\ scans[i].stage = "reading"
  /\ scans' = [scans EXCEPT ![i].stage = "parsing"]
  /\ scanner' = IF scans[i].live THEN ProcessStart(scanner) ELSE scanner
  /\ event' = Event("fileRead", 0, 0)
  /\ UNCHANGED << ai, addedBy, lsBudgets, budget, lsSession, lsUsers, lsTx, uuid, mounted, user,
                  transactions, userDirty, txDirty, currentView, auth,
                  form >>

\* fileToGenerativePart rejected (reader.onerror)
FileReadError(i) ==
  /\ Settled
  /\ i \in 1..Len(scans)
  /\ scans[i].stage = "reading"
  /\ scans' = RemoveAt(scans, i)
  /\ scanner' = IF scans[i].live
                  THEN [scanner EXCEPT !.error = "Failed to process file."]
                  ELSE scanner
  /\ event' = Event("fileReadError", 0, 0)
  /\ UNCHANGED << ai, addedBy, lsBudgets, budget, lsSession, lsUsers, lsTx, uuid, mounted, user,
                  transactions, userDirty, txDirty, currentView, auth,
                  form >>

\* the 'Use Camera' button, rendered like the file input
startCamera ==
  /\ Settled
  /\ ScannerMounted
  /\ ~scanner.loading
  /\ ~scanner.isCameraOpen
  /\ scanner' = [scanner EXCEPT !.isCameraOpen = TRUE]
  /\ event' = Event("startCamera", 0, 0)
  /\ UNCHANGED << ai, addedBy, lsBudgets, budget, lsSession, lsUsers, lsTx, uuid, mounted, user,
                  transactions, userDirty, txDirty, currentView, auth,
                  scans, form >>

\* the close button of the camera view
stopCamera ==
  /\ Settled
  /\ ScannerMounted
  /\ scanner.isCameraOpen
  /\ scanner' = [scanner EXCEPT !.isCameraOpen = FALSE]
  /\ event' = Event("stopCamera", 0, 0)
  /\ UNCHANGED << ai, addedBy, lsBudgets, budget, lsSession, lsUsers, lsTx, uuid, mounted, user,
                  transactions, userDirty, txDirty, currentView, auth,
                  scans, form >>

\* the shutter button, rendered whenever the camera view is (also while
\* loading): stopCamera(), then processReceipt up to its await
capturePhoto ==
  /\ Settled
  /\ ScannerMounted
  /\ scanner.isCameraOpen
  /\ Len(scans) < MaxScans
  /\ scanner' = ProcessStart([scanner EXCEPT !.isCameraOpen = FALSE])
  /\ scans' = Append(scans, [stage |-> "parsing", live |-> TRUE,
                            by |-> Val(user).id])
  /\ event' = Event("capture", 0, 0)
  /\ UNCHANGED << ai, addedBy, lsBudgets, budget, lsSession, lsUsers, lsTx, uuid, mounted, user,
                  transactions, userDirty, txDirty, currentView, auth,
                  form >>

\* extractedData.f || dflt for a string / for a number
OrStr(v, dflt) == IF TruthyStr(v) THEN v ELSE dflt
OrNum(v, dflt) == IF TruthyNum(v) THEN v ELSE dflt

\* ScanTransaction that books every receipt as an expense
ScanTransactionExpense(x, id) ==
  [id |-> id,
   date |-> OrStr(x.date, Today),
   merchant |-> OrStr(x.merchant, "Unknown Merchant"),
   amount |-> OrNum(x.amount, 0),
   category |-> OrStr(x.category, "Uncategorized"),
   type |-> EXPENSE,
   description |-> x.description]

\* newTransaction of processReceipt
ScanTransaction(x, id) ==
  [id |-> id,
   date |-> OrStr(x.date, Today),
   merchant |-> OrStr(x.merchant, "Unknown Merchant"),
   amount |-> OrNum(x.amount, 0),
   category |-> OrStr(x.category, "Uncategorized"),
   type |-> OrStr(x.type, EXPENSE),
   description |-> x.description]

\* parseReceiptImage gave an object the try block can read
Analyzed(r) == r.status = "returned"

\* parseReceiptImage settled with an object: the rest of the try block, then
\* finally; onAddTransaction is App's addTransaction, mounted or not
ScanSucceed(i, reply) ==
  /\ Settled
  /\ i \in 1..Len(scans)
  /\ scans[i].stage = "parsing"
  /\ Analyzed(parseReceiptImage(reply))
  /\ uuid < MaxUuid
  /\ uuid' = uuid + 1
  /\ addTransaction(ScanTransaction(parseReceiptImage(reply).value,
                                    RandomUUID(uuid + 1)))
  /\ scanner' = IF scans[i].live
                  THEN [scanner EXCEPT !.success = TRUE, !.loading = FALSE,
                                       !.timers = @ + 1]
                  ELSE scanner
  /\ scans' = RemoveAt(scans, i)
  /\ event' = EventOn("scanSucceed", 1, 0, parseReceiptImage(reply).value)
  /\ addedBy' = [addedBy EXCEPT ![RandomUUID(uuid + 1)] = scans[i].by]
  /\ UNCHANGED << ai, lsBudgets, budget, lsSession, lsUsers, lsTx, mounted, user, userDirty,
                  currentView, auth, form >>

ScanError == "Failed to analyze document. Please try again or enter manually."

\* parseReceiptImage threw, or returned null so that reading
\* extractedData.date throws: the catch block, then finally
ScanFail(i, reply) ==
  /\ Settled
  /\ i \in 1..Len(scans)
  /\ scans[i].stage = "parsing"
  /\ ~Analyzed(parseReceiptImage(reply))
  /\ scanner' = IF scans[i].live
                  THEN [scanner EXCEPT !.error = ScanError,
                                       !.loading = FALSE]
                  ELSE scanner
  /\ scans' = RemoveAt(scans, i)
  /\ event' = Event("scanFail", 0, 0)
  /\ UNCHANGED << ai, addedBy, lsBudgets, budget, lsSession, lsUsers, lsTx, uuid, mounted, user,
                  transactions, userDirty, txDirty, currentView, auth,
                  form >>

\* setTimeout(() => setSuccess(false), 3000) fires
SuccessTimeout ==
  /\ Settled
  /\ scanner.timers > 0
  /\ scanner' = [scanner EXCEPT !.success = FALSE, !.timers = @ - 1]
  /\ event' = Event("timeout", 0, 0)
  /\ UNCHANGED << ai, addedBy, lsBudgets, budget, lsSession, lsUsers, lsTx, uuid, mounted, user,
                  transactions, userDirty, txDirty, currentView, auth,
                  scans, form >>

\* ------------------------------------------------ calls of the service
\* a component calls a service function: the function runs up to its await
AiInvoke(fn) ==
  /\ ai.pc # "awaiting"
  /\ ai.calls < MaxCalls
  /\ ai' = [fn |-> fn, pc |-> "awaiting", requests |-> RequestsOnCall(fn),
            calls |-> ai.calls + 1, sent |-> ai.sent + RequestsOnCall(fn),
            reply |-> NoReply, result |-> Returned("")]
  /\ UNCHANGED << lsSession, lsUsers, lsTx, lsBudgets, budget, addedBy, uuid,
                  mounted,
                  user, transactions, userDirty, txDirty, currentView, auth,
                  scanner, scans, form, event >>

\* the catch block of the function runs on this reply
Caught(fn, reply) ==
  \/ reply.kind = "throws"
  \/ reply.kind = "invalid" /\ fn # "getCoachResponse"
  \/ reply.kind = "empty" /\ fn = "parseReceiptImage"
  \/ reply.kind = "null" /\ fn = "generateBudgetPlan"

\* the request settles: the function returns or throws
AiSettle(reply) ==
  /\ ai.pc = "awaiting"
  /\ IF Caught(ai.fn, reply)
        /\ ai.requests < RequestsOnCall(ai.fn) + RequestsOnCatch(ai.fn)
       THEN ai' = [ai EXCEPT !.requests = @ + 1, !.sent = @ + 1]
       ELSE ai' = [ai EXCEPT
                     !.pc = IF Outcome(ai.fn, reply).status = "threw"
                              THEN "threw" ELSE "returned",
                     !.reply = reply,
                     !.result = Outcome(ai.fn, reply)]
  /\ UNCHANGED << lsSession, lsUsers, lsTx, lsBudgets, budget, addedBy, uuid,
                  mounted,
                  user, transactions, userDirty, txDirty, currentView, auth,
                  scanner, scans, form, event >>

\* ------------------------------------------------------- derived values
\* a + b and a - b of JavaScript numbers: NaN and undefined give NaN, null
\* counts as 0
Num(a) == IF a = JsonNull THEN 0 ELSE a
Plus(a, b) ==
  IF a \in {NaN, NoNumber} \/ b \in {NaN, NoNumber} THEN NaN
  ELSE Num(a) + Num(b)
Minus(a, b) ==
  IF a \in {NaN, NoNumber} \/ b \in {NaN, NoNumber} THEN NaN
  ELSE Num(a) - Num(b)

\* transactions.filter(t => t.type === type)
FilterType(txs, type) == SelectSeq(txs, LAMBDA t : t.type = type)

\* txs.reduce((acc, t) => acc + t.amount, acc)
RECURSIVE ReduceAmount(_, _)
ReduceAmount(txs, acc) ==
  IF txs = << >> THEN acc
  ELSE ReduceAmount(Tail(txs), Plus(acc, Head(txs).amount))

\* Dashboard: summary
summary(txs) ==
  LET totalIncome == ReduceAmount(FilterType(txs, INCOME), 0)
      totalExpense == ReduceAmount(FilterType(txs, EXPENSE), 0)
  IN  [totalIncome |-> totalIncome, totalExpense |-> totalExpense,
       balance |-> Minus(totalIncome, totalExpense)]

\* currentBalance that adds the expenses to the income
currentBalanceAdded(txs) ==
  Plus(ReduceAmount(FilterType(txs, INCOME), 0),
       ReduceAmount(FilterType(txs, EXPENSE), 0))

\* App: currentBalance
currentBalance(txs) ==
  LET income == ReduceAmount(FilterType(txs, INCOME), 0)
      expense == ReduceAmount(FilterType(txs, EXPENSE), 0)
  IN  Minus(income, expense)

\* CashFlowTimeline: currentBalance
cashFlowCurrentBalance(txs) ==
  LET income == ReduceAmount(FilterType(txs, INCOME), 0)
      expense == ReduceAmount(FilterType(txs, EXPENSE), 0)
  IN  Minus(income, expense)

\* txs.forEach(t => { categories[t.category] =
\*                      (categories[t.category] || 0) + t.amount }):
\* the object as its entries in insertion order
RECURSIVE Tally(_, _)
Tally(txs, categories) ==
  IF txs = << >> THEN categories
  ELSE LET t == Head(txs)
           at == {i \in 1..Len(categories) : categories[i].name = t.category}
       IN  IF at = {}
             THEN Tally(Tail(txs),
                        Append(categories,
                               [name |-> t.category,
                                value |-> Plus(0, t.amount)]))
             ELSE LET i == CHOOSE j \in at : TRUE
                  IN  Tally(Tail(txs),
                            [categories EXCEPT
                               ![i].value = Plus(OrNum(@, 0), t.amount)])

\* categoryData that does not filter by type
categoryDataAll(txs) == Tally(txs, << >>)

\* Dashboard: categoryData, the name and the value of each entry (its colour
\* is COLORS[index % COLORS.length])
categoryData(txs) == Tally(FilterType(txs, EXPENSE), << >>)

\* ----------------------------------------------------- BudgetStatement
\* the characters of the date strings that occur
Chars(d) ==
  CASE d = "2023-10-01" -> << "2", "0", "2", "3", "-", "1", "0", "-", "0", "1" >>
    [] d = "2023-10-02" -> << "2", "0", "2", "3", "-", "1", "0", "-", "0", "2" >>
    [] d = "2023-10-05" -> << "2", "0", "2", "3", "-", "1", "0", "-", "0", "5" >>
    [] d = "2023-10-08" -> << "2", "0", "2", "3", "-", "1", "0", "-", "0", "8" >>
    [] d = "2023-10-10" -> << "2", "0", "2", "3", "-", "1", "0", "-", "1", "0" >>
    [] d = "2023-10-15" -> << "2", "0", "2", "3", "-", "1", "0", "-", "1", "5" >>
    [] d = "2023-10-20" -> << "2", "0", "2", "3", "-", "1", "0", "-", "2", "0" >>
    [] d = "2023-10-22" -> << "2", "0", "2", "3", "-", "1", "0", "-", "2", "2" >>
    [] d = "2023-11-03" -> << "2", "0", "2", "3", "-", "1", "1", "-", "0", "3" >>
    [] d = "2023-12-17" -> << "2", "0", "2", "3", "-", "1", "2", "-", "1", "7" >>

DigitChars == << "0", "1", "2", "3", "4", "5", "6", "7", "8", "9" >>
Digit(n) == DigitChars[n + 1]

\* `${year}` of a four-digit year
YearText(y) ==
  << Digit(y \div 1000), Digit((y \div 100) % 10), Digit((y \div 10) % 10),
     Digit(y % 10) >>

\* String(n).padStart(2, '0') for n < 100
PadStart2(n) ==
  IF n < 10 THEN << "0", Digit(n) >> ELSE << Digit(n \div 10), Digit(n % 10) >>

\* `${year}-${month}` of stats
MonthPrefix(cm) ==
  YearText(cm.year) \o << "-" >> \o PadStart2(cm.month + 1)

\* s.startsWith(p)
StartsWith(s, p) == Len(p) <= Len(s) /\ SubSeq(s, 1, Len(p)) = p

\* monthlyTransactions that keeps the expenses of every month
monthlyTransactionsAnyMonth(txs, cm) ==
  SelectSeq(txs, LAMBDA t : t.type = EXPENSE)

\* monthlyTransactions of stats
monthlyTransactions(txs, cm) ==
  LET currentMonthPrefix == MonthPrefix(cm)
  IN  SelectSeq(txs, LAMBDA t :
        t.type = EXPENSE /\ StartsWith(Chars(t.date), currentMonthPrefix))

\* object[key] of an object kept as its entries: undefined if absent
Lookup(entries, key) ==
  LET at == {i \in 1..Len(entries) : entries[i].name = key}
  IN  IF at = {} THEN NoNumber ELSE entries[CHOOSE i \in at : TRUE].value

\* Object.keys
Keys(entries) == {entries[i].name : i \in 1..Len(entries)}

\* the category names that occur, in the order of Array.prototype.sort
\* (by UTF-16 code units)
CategoryOrder ==
  << "Entertainment", "Food", "Food & Drink", "General", "Groceries",
     "Income", "Rent", "Rent/Mortgage", "Shopping", "Transport",
     "Uncategorized", "Utilities" >>

\* Array.from(new Set(names)).sort()
SortCategories(names) == SelectSeq(CategoryOrder, LAMBDA c : c \in names)

\* rows.reduce((acc, curr) => acc + curr[field], acc)
RECURSIVE ReduceField(_, _, _)
ReduceField(rows, field, acc) ==
  IF rows = << >> THEN acc
  ELSE ReduceField(Tail(rows), field, Plus(acc, Head(rows)[field]))

\* the callback of allCategories.map
CategoryStat(cat, spendingByCategory, budgets) ==
  LET spent == OrNum(Lookup(spendingByCategory, cat), 0)
      bud == IF cat \in DOMAIN budgets THEN OrNum(budgets[cat], 0) ELSE 0
  IN  [category |-> cat, spent |-> spent, budget |-> bud,
       remaining |-> Minus(bud, spent)]

\* allCategories.map(cat => ...)
RECURSIVE MapCategories(_, _, _, _)
MapCategories(cats, spendingByCategory, budgets, rows) ==
  IF cats = << >> THEN rows
  ELSE MapCategories(Tail(cats), spendingByCategory, budgets,
                     Append(rows, CategoryStat(Head(cats), spendingByCategory,
                                               budgets)))

\* the totals of stats
Totals(categoryStats, totalBudget, totalSpent) ==
  [categoryStats |-> categoryStats, totalBudget |-> totalBudget,
   totalSpent |-> totalSpent,
   totalRemaining |-> Minus(totalBudget, totalSpent)]

StatsOfRows(categoryStats) ==
  Totals(categoryStats, ReduceField(categoryStats, "budget", 0),
         ReduceField(categoryStats, "spent", 0))

StatsOfSpending(spendingByCategory, budgets) ==
  StatsOfRows(
    MapCategories(SortCategories(DOMAIN budgets \cup Keys(spendingByCategory)),
                  spendingByCategory, budgets, << >>))

\* BudgetStatement: stats (without the percentages, which are ratios)
stats(txs, budgets, cm) ==
  StatsOfSpending(Tally(monthlyTransactions(txs, cm), << >>), budgets)

BudgetMounted == mounted /\ ~IsNull(user) /\ currentView = "BUDGETS"

\* what the component shows
Shown == stats(transactions, budget.budgets, budget.currentMonth)

\* the categories of the rows shown
Listed ==
  LET rows == Shown.categoryStats
  IN  {rows[i].category : i \in 1..Len(rows)}

\* months between the month shown and this month
MonthsFromToday(cm) ==
  (cm.year * 12 + cm.month) - (ThisMonth.year * 12 + ThisMonth.month)

\* date.setMonth(m) for m from -1 to 12; the day of the month of Today
\* exists in every month
SetMonth(cm, m) ==
  IF m < 0 THEN [year |-> cm.year - 1, month |-> m + 12]
  ELSE IF m > 11 THEN [year |-> cm.year + 1, month |-> m - 12]
  ELSE [cm EXCEPT !.month = m]

\* the left arrow: setCurrentMonth(new Date(currentMonth.setMonth(month - 1)))
PrevMonth ==
  /\ Settled
  /\ BudgetMounted
  /\ MonthsFromToday(budget.currentMonth) > 0 - MaxMonthSteps
  /\ budget' = [budget EXCEPT
                  !.currentMonth = SetMonth(@, @.month - 1)]
  /\ event' = Event("prevMonth", 0, 0)
  /\ UNCHANGED << ai, addedBy, lsBudgets, lsSession, lsUsers, lsTx, uuid, mounted,
                  user, transactions, userDirty, txDirty, currentView, auth,
                  scanner, scans, form >>

\* the right arrow
NextMonth ==
  /\ Settled
  /\ BudgetMounted
  /\ MonthsFromToday(budget.currentMonth) < MaxMonthSteps
  /\ budget' = [budget EXCEPT
                  !.currentMonth = SetMonth(@, @.month + 1)]
  /\ event' = Event("nextMonth", 0, 0)
  /\ UNCHANGED << ai, addedBy, lsBudgets, lsSession, lsUsers, lsTx, uuid, mounted,
                  user, transactions, userDirty, txDirty, currentView, auth,
                  scanner, scans, form >>

\* a click on the budget of a row that is not being edited:
\* setIsEditing(stat.category); setEditValue(stat.budget.toString())
StartEdit(cat) ==
  /\ Settled
  /\ BudgetMounted
  /\ budget.isEditing # Some(cat)
  /\ LET rows == Shown.categoryStats
     IN  \E i \in 1..Len(rows) :
           /\ rows[i].category = cat
           /\ budget' = [budget EXCEPT
                           !.isEditing = Some(cat),
                           !.editValue = NumberText(rows[i].budget)]
  /\ event' = Event("startEdit", 0, 0)
  /\ UNCHANGED << ai, addedBy, lsBudgets, lsSession, lsUsers, lsTx, uuid, mounted,
                  user, transactions, userDirty, txDirty, currentView, auth,
                  scanner, scans, form >>

\* the row being edited is shown
Editing == ~IsNull(budget.isEditing) /\ Val(budget.isEditing) \in Listed

\* onChange of the number input of the row being edited
EditChange(value) ==
  /\ Settled
  /\ BudgetMounted
  /\ Editing
  /\ budget.editValue # value
  /\ budget' = [budget EXCEPT !.editValue = value]
  /\ event' = Event("editChange", 0, 0)
  /\ UNCHANGED << ai, addedBy, lsBudgets, lsSession, lsUsers, lsTx, uuid, mounted,
                  user, transactions, userDirty, txDirty, currentView, auth,
                  scanner, scans, form >>

\* the Escape key in the input: setIsEditing(null)
CancelEdit ==
  /\ Settled
  /\ BudgetMounted
  /\ Editing
  /\ budget' = [budget EXCEPT !.isEditing = Null]
  /\ event' = Event("cancelEdit", 0, 0)
  /\ UNCHANGED << ai, addedBy, lsBudgets, lsSession, lsUsers, lsTx, uuid, mounted,
                  user, transactions, userDirty, txDirty, currentView, auth,
                  scanner, scans, form >>

\* Number(editValue) of the value of a number input
Number(value) == IF value = EmptyInput THEN 0 ELSE value[1]

\* updateBudgets: what it leaves in localStorage
updateBudgets(newBudgets, session, store) ==
  IF ~IsNull(session)
    THEN [store EXCEPT ![ParseUser(Val(session)).id] =
                         Some(StringifyBudgets(newBudgets))]
    ELSE store

\* { ...budgets, [category]: amount } and { ...budgets, ...generated }
Spread(budgets, more) ==
  [c \in DOMAIN budgets \cup DOMAIN more |->
     IF c \in DOMAIN more THEN more[c] ELSE budgets[c]]

\* the amounts of a generated plan, which are in units of the currency, in
\* cents
Cents(plan) == [c \in DOMAIN plan |-> 100 * plan[c]]

\* the Enter key or the save button:
\* saveBudget(stat.category, Number(editValue))
saveBudget ==
  /\ Settled
  /\ BudgetMounted
  /\ Editing
  /\ LET category == Val(budget.isEditing)
         newBudgets ==
           Spread(budget.budgets,
                  [c \in {category} |-> Number(budget.editValue)])
     IN  /\ budget' = [budget EXCEPT !.budgets = newBudgets,
                                     !.isEditing = Null]
         /\ lsBudgets' = updateBudgets(newBudgets, lsSession, lsBudgets)
  /\ event' = Event("saveBudget", 0, 0)
  /\ UNCHANGED << ai, addedBy, lsSession, lsUsers, lsTx, uuid, mounted, user,
                  transactions, userDirty, txDirty, currentView, auth,
                  scanner, scans, form >>

\* handleAiGenerate up to its await; the button is disabled while generating
handleAiGenerate ==
  /\ Settled
  /\ BudgetMounted
  /\ ~budget.isGenerating
  /\ Len(budget.pending) < MaxPlans
  /\ budget' = [budget EXCEPT
                  !.isGenerating = TRUE,
                  !.pending = Append(@, [budgets |-> budget.budgets,
                                         live |-> TRUE])]
  /\ event' = Event("aiGenerate", 0, 0)
  /\ UNCHANGED << ai, addedBy, lsBudgets, lsSession, lsUsers, lsTx, uuid, mounted,
                  user, transactions, userDirty, txDirty, currentView, auth,
                  scanner, scans, form >>

\* generateBudgetPlan settled: updateBudgets({...budgets, ...generated}) with
\* the budgets of the render that started the call, then finally; the
\* setters of an unmounted BudgetStatement do nothing
BudgetGenerated(i, reply) ==
  /\ Settled
  /\ i \in 1..Len(budget.pending)
  /\ LET call == budget.pending[i]
         newBudgets == Spread(call.budgets,
                              Cents(generateBudgetPlan(reply).value))
     IN  /\ budget' = [budget EXCEPT
                         !.budgets = IF call.live THEN newBudgets ELSE @,
                         !.isGenerating = IF call.live THEN FALSE ELSE @,
                         !.pending = RemoveAt(@, i)]
         /\ lsBudgets' = updateBudgets(newBudgets, lsSession, lsBudgets)
  /\ event' = Event("aiGenerated", 0, 0)
  /\ UNCHANGED << ai, addedBy, lsSession, lsUsers, lsTx, uuid, mounted, user,
                  transactions, userDirty, txDirty, currentView, auth,
                  scanner, scans, form >>

\* ------------------------------------------------------------ inputs
Views == {"DASHBOARD", "TRANSACTIONS", "RECEIPT_SCANNER"}

\* what a visitor types into the Auth form
Names == {"", "Ann"}
Emails == {"", "a@x.io", "b@x.io"}
Passwords == {"", "pw1", "pw2"}

\* the row whose trash button is clicked: the first one
RowsClicked(txs) ==
  IF Len(txs) = 0 THEN {} ELSE {txs[1].id}

\* the row whose trash button is clicked: any one
AnyRow(txs) == {txs[i].id : i \in 1..Len(txs)}

\* a receipt as the model returns it: absent properties read as undefined
Receipt(d, m, a, c, t, ds) ==
  [date |-> d, merchant |-> m, amount |-> a, category |-> c, type |-> t,
   description |-> ds]

\* replies of the model to a receipt: nothing given, everything falsy,
\* everything given, and two mixtures
Receipts ==
  { Receipt(Undefined, Undefined, NoNumber, Undefined, Undefined, Undefined),
    Receipt("", "", 0, "", "", ""),
    Receipt("2023-11-03", "Cafe", 700, "Food", INCOME, "lunch"),
    Receipt("2023-11-03", Undefined, 700, "", EXPENSE, Undefined),
    Receipt(Undefined, "Cafe", 0, "Food", Undefined, "lunch") }

\* replies that make receipt analysis fail
FailedReplies == {Throws, NoText, NotJson, JsonNullText}

\* values the model returns as JSON text, by function
JsonValues(fn) ==
  CASE fn = "parseReceiptImage" -> Receipts
    [] fn = "analyzeFinancialHealth" ->
         {[score |-> 82, status |-> "Healthy", cashFlowStatus |-> "Stable",
           projectedSavings |-> 100, risks |-> << >>,
           recommendations |-> << "Keep going" >>]}
    [] fn = "getCoachResponse" -> {"Spend less on coffee."}
    [] fn = "generateBudgetPlan" ->
         {[budget |-> [Food |-> 300]], [Food |-> 300, Rent |-> 900]}
    [] fn = "generateSmartInsights" ->
         {<< [type |-> "ALERT", title |-> "Netflix", description |-> "up"] >>}
    [] fn = "detectAnomalies" ->
         {<< [transactionId |-> "3", reason |-> "duplicate",
              severity |-> "HIGH"] >>}
    [] OTHER ->
         {<< [date |-> "2023-12-18", balance |-> 100, type |-> "PREDICTED"] >>}

\* ------------------------------------------------- specification: the App
\* sessions, persistence and the transaction list, with one kind of manual
\* entry and one kind of receipt
Next ==
  \/ Mount
  \/ RunEffects
  \/ Reload
  \/ handleLogout
  \/ \E v \in {"DASHBOARD", "TRANSACTIONS"} : Navigate(v)
  \/ AuthToggle
  \/ \E e \in {"a@x.io", "b@x.io"} : AuthSubmit("Ann", e, "pw1")
  \/ AuthComplete
  \/ ToggleAddForm
  \/ FormChange("merchant", "Cafe")
  \/ FormChange("amount", 500)
  \/ FormSubmit
  \/ \E id \in RowsClicked(transactions) : DeleteRow(id)

Spec == Init /\ [][Next]_vars

\* ------------------------------------------ specification: authentication
\* every combination of form input, no change of the transaction list
NextAuth ==
  \/ Mount
  \/ RunEffects
  \/ Reload
  \/ handleLogout
  \/ AuthToggle
  \/ \E n \in Names, e \in Emails, p \in Passwords : AuthSubmit(n, e, p)
  \/ AuthComplete

SpecAuth == Init /\ [][NextAuth]_vars

\* ----------------------------------------------- specification: Scanner
\* one account; every way to start a scan, every kind of receipt
NextScan ==
  \/ Mount
  \/ RunEffects
  \/ AuthToggle
  \/ AuthSubmit("Ann", "a@x.io", "pw1")
  \/ AuthComplete
  \/ \E v \in {"DASHBOARD", "RECEIPT_SCANNER"} : Navigate(v)
  \/ handleFileUpload
  \/ \E i \in 1..MaxScans : FileRead(i)
  \/ \E i \in 1..MaxScans : FileReadError(i)
  \/ startCamera
  \/ stopCamera
  \/ capturePhoto
  \/ \E i \in 1..MaxScans, x \in Receipts : ScanSucceed(i, JsonText(x))
  \/ \E i \in 1..MaxScans, r \in FailedReplies : ScanFail(i, r)
  \/ SuccessTimeout

SpecScan == Init /\ [][NextScan]_vars

\* ------------------------------------- specification: manual-entry form
\* one account; every input of the form
NextForm ==
  \/ Mount
  \/ RunEffects
  \/ AuthToggle
  \/ AuthSubmit("Ann", "a@x.io", "pw1")
  \/ AuthComplete
  \/ \E v \in {"DASHBOARD", "TRANSACTIONS"} : Navigate(v)
  \/ ToggleAddForm
  \/ \E m \in {"", "Cafe"} : FormChange("merchant", m)
  \/ \E a \in {NaN, 0, 500, 0 - 500} : FormChange("amount", a)
  \/ \E t \in {INCOME, EXPENSE} : FormChange("type", t)
  \/ FormChange("date", "")
  \/ FormChange("category", "")
  \/ FormSubmit

SpecForm == Init /\ [][NextForm]_vars

\* ---------------------------------- specification: budget statement
\* one account; manual entries of this month, the seed data of October 2023
NextBudget ==
  \/ Mount
  \/ RunEffects
  \/ AuthSubmit("Ann", "a@x.io", "pw1")
  \/ AuthToggle
  \/ AuthComplete
  \/ \E v \in {"TRANSACTIONS", "BUDGETS"} : Navigate(v)
  \/ ToggleAddForm
  \/ FormChange("merchant", "Cafe")
  \/ FormChange("amount", 500)
  \/ FormSubmit
  \/ PrevMonth
  \/ NextMonth
  \/ StartEdit("General")
  \/ EditChange(NumberText(30000))
  \/ CancelEdit
  \/ saveBudget
  \/ handleAiGenerate
  \/ \E i \in 1..MaxPlans :
       BudgetGenerated(i, JsonText([budget |-> [Food |-> 300]]))

SpecBudget == Init /\ [][NextBudget]_vars

\* --------------------------------- specification: sessions and scans
\* two accounts in one tab; scans that outlive the session that started them
NextSession ==
  \/ Mount
  \/ RunEffects
  \/ handleLogout
  \/ AuthToggle
  \/ \E e \in {"a@x.io", "b@x.io"} : AuthSubmit("Ann", e, "pw1")
  \/ AuthComplete
  \/ \E v \in {"DASHBOARD", "RECEIPT_SCANNER"} : Navigate(v)
  \/ handleFileUpload
  \/ \E i \in 1..MaxScans : FileRead(i)
  \/ \E i \in 1..MaxScans :
       ScanSucceed(i, JsonText(Receipt("2023-11-03", "Cafe", 700, "Food",
                                       EXPENSE, "lunch")))
  \/ \E i \in 1..MaxScans : ScanFail(i, Throws)

SpecSession == Init /\ [][NextSession]_vars

\* ------------------------------------ specification: the list of rows
\* one account; any row is deleted, rows are added by the form
NextList ==
  \/ Mount
  \/ RunEffects
  \/ AuthToggle
  \/ AuthSubmit("Ann", "a@x.io", "pw1")
  \/ AuthComplete
  \/ \E v \in {"DASHBOARD", "TRANSACTIONS"} : Navigate(v)
  \/ ToggleAddForm
  \/ FormChange("merchant", "Cafe")
  \/ FormChange("amount", 500)
  \/ FormSubmit
  \/ \E id \in AnyRow(transactions) : DeleteRow(id)

SpecList == Init /\ [][NextList]_vars

\* --------------------------------------- specification: the AI service
NextAI ==
  \/ \E fn \in ServiceFunctions : AiInvoke(fn)
  \/ \E r \in FailedReplies : AiSettle(r)
  \/ \E v \in JsonValues(ai.fn) : AiSettle(JsonText(v))

SpecAI == Init /\ [][NextAI]_vars

\* ================================================================ claims
Last(seq) == seq[Len(seq)]
Ids(txs) == {txs[i].id : i \in 1..Len(txs)}
LoggedIn == ~IsNull(user)
Key == lsTx[Val(user).id]

\* C1: whenever the effects have run and a user is logged in, the list stored
\* under elag_transactions_<user.id> is the in-memory list, the empty list
\* included
C1_SavedWheneverChanged ==
  (Settled /\ LoggedIn) =>
    (~IsNull(Key) /\ Val(Key) = StringifyTxs(transactions))

\* C2: in the commit in which a user becomes the current user, the list set
\* is the stored list if the key exists and the seed list only if it does not
C2_SeedOnlyWithoutData ==
  [][(mounted /\ mounted' /\ userDirty /\ LoggedIn /\ ~userDirty') =>
       /\ ~IsNull(Key) => transactions' = ParseTxs(Val(Key))
       /\ IsNull(Key) => transactions' = INITIAL_TRANSACTIONS
       /\ transactions' = INITIAL_TRANSACTIONS =>
            (IsNull(Key) \/ Val(Key) = StringifyTxs(INITIAL_TRANSACTIONS))]_vars

\* a user whose stored list is not the seed list has logged in again and
\* sees the stored list
C2_Witness ==
  /\ Settled /\ LoggedIn
  /\ event.op = "login"
  /\ ~IsNull(Key)
  /\ transactions # INITIAL_TRANSACTIONS
  /\ transactions = ParseTxs(Val(Key))

\* the step in which handleSubmit finishes: the submit in flight is gone and
\* the page was not reloaded
SubmitDone(op) ==
  /\ ~IsNull(auth.pending)
  /\ IsNull(auth'.pending)
  /\ mounted'
  /\ event'.op = op

\* elag_users holds a user with this email and this password
Registered(email, password) ==
  \E i \in 1..Len(StoredUsers) :
    StoredUsers[i].email = email /\ StoredUsers[i].password = password

\* C3: a login succeeds exactly if elag_users holds a user with the submitted
\* email and password; then elag_session and onLogin get that user's id, name
\* and email; otherwise the error is set and nothing else changes
C3_LoginIffRegistered ==
  [][SubmitDone("login") =>
       LET p == Val(auth.pending) IN
       IF Registered(p.email, p.password)
         THEN /\ event'.logins = 1
              /\ \E i \in 1..Len(StoredUsers) :
                   /\ StoredUsers[i].email = p.email
                   /\ StoredUsers[i].password = p.password
                   /\ lsSession' = Some([id |-> StoredUsers[i].id,
                                         name |-> StoredUsers[i].name,
                                         email |-> StoredUsers[i].email])
                   /\ user' = Some([id |-> StoredUsers[i].id,
                                    name |-> StoredUsers[i].name,
                                    email |-> StoredUsers[i].email])
              /\ lsUsers' = lsUsers
         ELSE /\ event'.logins = 0
              /\ auth'.error = "Invalid email or password."
              /\ lsSession' = lsSession
              /\ lsUsers' = lsUsers
              /\ user' = user]_vars

\* a registered user has logged in with the right password after an account
\* with another password exists
C3_Witness ==
  /\ event.op = "login"
  /\ event.logins = 1
  /\ LoggedIn
  /\ ~IsNull(lsSession)
  /\ Val(lsSession).email = event.input.email
  /\ Len(StoredUsers) = 2

\* no two users of elag_users have the same email
UniqueEmails ==
  \A i, j \in 1..Len(StoredUsers) :
    StoredUsers[i].email = StoredUsers[j].email => i = j

\* a sign-up finishes whose email is the email of a user of elag_users
DuplicateSignup ==
  /\ SubmitDone("signup")
  /\ \E i \in 1..Len(StoredUsers) :
       StoredUsers[i].email = Val(auth.pending).email

\* the sign-up is turned down as a duplicate and nothing is stored
TurnedDown ==
  /\ auth'.error = "Email already exists. Please login."
  /\ lsUsers' = lsUsers
  /\ lsSession' = lsSession
  /\ user' = user
  /\ event'.logins = 0

\* C4 as stated: elag_users never holds two users with the same email; every
\* sign-up with an email that exists sets the error 'Email already exists.
\* Please login.' and changes neither elag_users nor elag_session, and does
\* not call onLogin
C4_AsStated ==
  /\ []UniqueEmails
  /\ [][DuplicateSignup => TurnedDown]_vars

\* C4 amended: elag_users never holds two users with the same email; a
\* sign-up with an email that exists never changes elag_users, elag_session
\* or the user; its error is 'Email already exists. Please login.' when name
\* and password are filled in, and 'Please fill in all fields.' when not
C4_NoDuplicateEmail ==
  /\ []UniqueEmails
  /\ [][DuplicateSignup =>
         /\ lsUsers' = lsUsers
         /\ lsSession' = lsSession
         /\ user' = user
         /\ event'.logins = 0
         /\ auth'.error =
              IF Val(auth.pending).name # "" /\ Val(auth.pending).password # ""
                THEN "Email already exists. Please login."
                ELSE "Please fill in all fields."]_vars

\* a sign-up with the email of an existing account was turned down
C4_Witness ==
  /\ event.op = "signup"
  /\ auth.error = "Email already exists. Please login."
  /\ \E i \in 1..Len(StoredUsers) : StoredUsers[i].email = event.input.email

\* C5: every call of a service function issues exactly one request to the
\* model, whether the request succeeds or fails: a finished call has issued
\* one, and the requests sent are as many as the calls made
C5_OneRequestPerCall ==
  /\ ai.sent = ai.calls
  /\ ai.pc \in {"awaiting", "returned", "threw"} => ai.requests = 1

\* a call whose request was rejected has finished
C5_Witness ==
  /\ ai.pc \in {"returned", "threw"}
  /\ ai.reply.kind = "throws"
  /\ ai.calls = MaxCalls

\* C6: when the request throws, each of the six functions returns its
\* fallback, and none of them ever throws
C6_CatchAndFallback ==
  (ai.pc \in {"returned", "threw"} /\ ai.fn \in FallbackFunctions) =>
    /\ ai.pc = "returned"
    /\ ai.reply.kind = "throws" =>
         /\ ai.result.status = "returned"
         /\ ai.fn = "analyzeFinancialHealth" =>
              /\ ai.result.value.score = 50
              /\ ai.result.value.status = "Warning"
         /\ ai.fn = "getCoachResponse" =>
              ai.result.value = "I'm having trouble connecting to my financial database right now. Please try again in a moment."
         /\ ai.fn = "generateBudgetPlan" =>
              ai.result.value = [General |-> 1000]
         /\ ai.fn \in {"generateSmartInsights", "detectAnomalies",
                       "predictCashFlow"} =>
              ai.result.value = << >>

\* the request of analyzeFinancialHealth was rejected and the call returned
C6_Witness ==
  /\ ai.fn = "analyzeFinancialHealth"
  /\ ai.pc = "returned"
  /\ ai.reply.kind = "throws"

\* the step in which the analysis of a scan of the mounted Scanner fails
LiveScanFailed ==
  /\ event'.op = "scanFail"
  /\ \E i \in 1..Len(scans) :
       /\ scans[i].stage = "parsing"
       /\ scans[i].live
       /\ scans' = RemoveAt(scans, i)

\* C7: when receipt analysis fails, no transaction is added, error is the
\* 'Failed to analyze document' message, success is false and loading is
\* false again
C7_FailedScanAddsNothing ==
  [][LiveScanFailed =>
       /\ transactions' = transactions
       /\ event'.adds = 0
       /\ scanner'.error = "Failed to analyze document. Please try again or enter manually."
       /\ scanner'.success = FALSE
       /\ scanner'.loading = FALSE]_vars

\* the step in which the analysis of a scan succeeds
ScanSucceeded ==
  /\ event'.op = "scanSucceed"
  /\ Len(scans') = Len(scans) - 1
  /\ mounted'

\* the value a property of the receipt x gives, dflt if missing or falsy
GivenStr(v, dflt) == IF v \in {Undefined, ""} THEN dflt ELSE v
GivenNum(v, dflt) == IF v \in {NoNumber, JsonNull, 0} THEN dflt ELSE v

\* C8: a successful analysis appends exactly one transaction with a fresh
\* id; each property the model left missing or falsy has its default, each
\* property it gave is copied
C8_ScanAppendsOneWithDefaults ==
  [][ScanSucceeded =>
       LET x == event'.input
           t == Last(transactions')
       IN  /\ event'.adds = 1
           /\ transactions' = Append(transactions, t)
           /\ t.id \notin Ids(transactions)
           /\ t.date = GivenStr(x.date, Today)
           /\ t.merchant = GivenStr(x.merchant, "Unknown Merchant")
           /\ t.amount = GivenNum(x.amount, 0)
           /\ t.category = GivenStr(x.category, "Uncategorized")
           /\ t.type = GivenStr(x.type, "EXPENSE")
           /\ t.description = x.description]_vars

\* a receipt with a type and without a merchant was analysed
C8_Witness ==
  /\ event.op = "scanSucceed"
  /\ event.input.type = INCOME
  /\ Len(transactions) > 0
  /\ Last(transactions).type = INCOME
  /\ Last(transactions).id = RandomUUID(uuid)

\* the step in which the manual-entry form is submitted
FormSubmitted ==
  /\ event'.op = "formSubmit"
  /\ ListMounted /\ form.showAddForm
  /\ event'.input = form.formData
  /\ event' # event \/ transactions' # transactions

\* C9: a submit with an empty merchant or with amount 0 or NaN calls onAdd
\* zero times and leaves the list, the form fields and showAddForm as they
\* are; any other submit calls onAdd once and resets the form
C9_FormAddsOnlyValid ==
  [][FormSubmitted =>
       LET fd == form.formData IN
       IF fd.merchant = "" \/ fd.amount = 0 \/ fd.amount = NaN
         THEN /\ event'.adds = 0
              /\ transactions' = transactions
              /\ form' = form
         ELSE /\ event'.adds = 1
              /\ Len(transactions') = Len(transactions) + 1
              /\ SubSeq(transactions', 1, Len(transactions)) = transactions
              /\ Last(transactions').merchant = fd.merchant
              /\ Last(transactions').amount = fd.amount
              /\ form'.showAddForm = FALSE
              /\ form'.formData.merchant = ""
              /\ form'.formData.amount = 0]_vars

\* a form with a merchant and the amount NaN was submitted and is still open
C9_Witness ==
  /\ event.op = "formSubmit"
  /\ event.adds = 0
  /\ form.showAddForm
  /\ form.formData.merchant = "Cafe"
  /\ form.formData.amount = NaN
  /\ event.input = form.formData

\* C10: logout removes elag_session and sets the user to null; once the
\* effects have run the in-memory list is empty; neither the logout nor the
\* effects after it change elag_users or any elag_transactions_<id>
C10_LogoutFrame ==
  /\ [][(event'.op = "logout" /\ LoggedIn) =>
          /\ IsNull(lsSession')
          /\ IsNull(user')
          /\ lsUsers' = lsUsers
          /\ lsTx' = lsTx]_vars
  /\ [][(event.op = "logout" /\ event'.op = "logout") =>
          /\ lsUsers' = lsUsers
          /\ lsTx' = lsTx
          /\ lsSession' = lsSession]_vars
  /\ []((event.op = "logout" /\ Settled) =>
          /\ transactions = << >>
          /\ IsNull(user)
          /\ IsNull(lsSession))

\* a user with stored transactions has logged out and the effects have run
C10_Witness ==
  /\ event.op = "logout"
  /\ Settled
  /\ \E k \in UUIDs : ~IsNull(lsTx[k]) /\ Val(lsTx[k]) # StringifyTxs(INITIAL_TRANSACTIONS)
  /\ Len(StoredUsers) = 2

\* the sum of the amounts of the transactions at the positions in S
RECURSIVE AmountSum(_, _)
AmountSum(txs, S) ==
  IF S = {} THEN 0
  ELSE LET i == CHOOSE j \in S : TRUE
       IN  txs[i].amount + AmountSum(txs, S \ {i})

\* the positions of the transactions of a type
OfType(txs, type) == {i \in 1..Len(txs) : txs[i].type = type}

\* C11: for the transaction list of every state, the dashboard balance is the
\* sum of the amounts of the INCOME transactions minus the sum of the amounts
\* of the EXPENSE transactions, and App's currentBalance and
\* CashFlowTimeline's currentBalance have the same value
C11_BalanceIsIncomeMinusExpense ==
  /\ summary(transactions).balance =
       AmountSum(transactions, OfType(transactions, INCOME))
         - AmountSum(transactions, OfType(transactions, EXPENSE))
  /\ currentBalance(transactions) = summary(transactions).balance
  /\ cashFlowCurrentBalance(transactions) = summary(transactions).balance

\* the list holds the seed data and a manual income and a manual expense
C11_Witness ==
  /\ Settled /\ LoggedIn
  /\ Len(transactions) = Len(INITIAL_TRANSACTIONS) + 2
  /\ \E i, j \in 1..Len(transactions) :
       /\ transactions[i].description = "Manual Entry"
       /\ transactions[i].type = INCOME
       /\ transactions[j].description = "Manual Entry"
       /\ transactions[j].type = EXPENSE
       /\ transactions[j].amount < 0
  /\ summary(transactions).totalExpense > 0

\* the positions of the EXPENSE transactions of a category
ExpensesOf(txs, c) ==
  {i \in OfType(txs, EXPENSE) : txs[i].category = c}

\* the sum of the values of the entries
RECURSIVE ValueSum(_)
ValueSum(entries) ==
  IF entries = << >> THEN 0
  ELSE Head(entries).value + ValueSum(Tail(entries))

MonthOfDate(d) ==
  CASE d = "2023-10-01" -> [year |-> 2023, month |-> 9]
    [] d = "2023-10-02" -> [year |-> 2023, month |-> 9]
    [] d = "2023-10-05" -> [year |-> 2023, month |-> 9]
    [] d = "2023-10-08" -> [year |-> 2023, month |-> 9]
    [] d = "2023-10-10" -> [year |-> 2023, month |-> 9]
    [] d = "2023-10-15" -> [year |-> 2023, month |-> 9]
    [] d = "2023-10-20" -> [year |-> 2023, month |-> 9]
    [] d = "2023-10-22" -> [year |-> 2023, month |-> 9]
    [] d = "2023-11-03" -> [year |-> 2023, month |-> 10]
    [] d = "2023-12-17" -> [year |-> 2023, month |-> 11]

\* the positions of the EXPENSE transactions dated in the month cm
SpentInMonth(txs, cm) ==
  {i \in OfType(txs, EXPENSE) : MonthOfDate(txs[i].date) = cm}

\* the budget of a category: the number kept for it, 0 if there is none
BudgetOf(budgets, c) ==
  IF c \in DOMAIN budgets /\ TruthyNum(budgets[c]) THEN budgets[c] ELSE 0

\* the sum of a field over the rows at the positions in S
RECURSIVE FieldSum(_, _, _)
FieldSum(rows, field, S) ==
  IF S = {} THEN 0
  ELSE LET i == CHOOSE j \in S : TRUE
       IN  rows[i][field] + FieldSum(rows, field, S \ {i})

\* what C13 says of a statement st computed from txs, budgets and month cm
BudgetStatementRight(st, txs, budgets, cm) ==
  /\ \A i, j \in 1..Len(st.categoryStats) :
       st.categoryStats[i].category = st.categoryStats[j].category => i = j
  /\ {st.categoryStats[i].category : i \in 1..Len(st.categoryStats)} =
       DOMAIN budgets \cup {txs[i].category : i \in SpentInMonth(txs, cm)}
  /\ \A i \in 1..Len(st.categoryStats) :
       /\ st.categoryStats[i].spent =
            AmountSum(txs, {k \in SpentInMonth(txs, cm) :
                              txs[k].category = st.categoryStats[i].category})
       /\ st.categoryStats[i].budget =
            BudgetOf(budgets, st.categoryStats[i].category)
       /\ st.categoryStats[i].remaining =
            st.categoryStats[i].budget - st.categoryStats[i].spent
  /\ st.totalBudget =
       FieldSum(st.categoryStats, "budget", 1..Len(st.categoryStats))
  /\ st.totalSpent =
       FieldSum(st.categoryStats, "spent", 1..Len(st.categoryStats))
  /\ st.totalRemaining = st.totalBudget - st.totalSpent

\* C13: in the budget statement, the amount spent in a category is the sum
\* of the amounts of the EXPENSE transactions of that category dated in the
\* selected month; the categories listed are the budgeted ones and the ones
\* spent in that month; remaining is budget minus spent, and the total
\* remaining is the total budget minus the total spent
C13_BudgetStatement ==
  BudgetMounted =>
    BudgetStatementRight(Shown, transactions, budget.budgets,
                         budget.currentMonth)

\* December 2023 is shown: a manual expense of that month under a category
\* without a budget is listed next to the budgeted categories, and the
\* expenses of October are not counted
C13_Witness ==
  /\ Settled /\ BudgetMounted
  /\ budget.currentMonth = [year |-> 2023, month |-> 11]
  /\ Len(transactions) > Len(INITIAL_TRANSACTIONS)
  /\ "Groceries" \in DOMAIN budget.budgets
  /\ "General" \notin DOMAIN budget.budgets
  /\ "General" \in Listed
  /\ Shown.totalSpent = 500
  /\ Shown.totalRemaining = Shown.totalBudget - 500
  /\ Shown.totalBudget > 0

\* the sign-up that finishes in this step was submitted with an empty name,
\* email or password
EmptyFieldSignup ==
  /\ SubmitDone("signup")
  /\ ~Val(auth.pending).isLogin
  /\ \/ Val(auth.pending).name = ""
     \/ Val(auth.pending).email = ""
     \/ Val(auth.pending).password = ""

\* C14: a sign-up with an empty name, email or password sets the error
\* 'Please fill in all fields.', leaves elag_users and elag_session
\* unchanged, does not call onLogin and sets loading back to false
C14_EmptyFieldSignupRejected ==
  [][EmptyFieldSignup =>
       /\ auth'.error = "Please fill in all fields."
       /\ lsUsers' = lsUsers
       /\ lsSession' = lsSession
       /\ event'.logins = 0
       /\ user' = user
       /\ ~auth'.loading]_vars

\* a sign-up with a name and a new email but no password was rejected
C14_Witness ==
  /\ event.op = "signup"
  /\ event.input.name # ""
  /\ event.input.email # ""
  /\ event.input.password = ""
  /\ ~EmailTaken(StoredUsers, event.input.email)
  /\ auth.error = "Please fill in all fields."
  /\ ~auth.loading
  /\ IsNull(user)

\* the transactions of a stored list that were added in the session of
\* another user than the one the list is stored for
Foreign(k) ==
  IF IsNull(lsTx[k]) THEN {}
  ELSE {i \in 1..Len(Val(lsTx[k])) :
          /\ Val(lsTx[k])[i].id \in UUIDs
          /\ addedBy[Val(lsTx[k])[i].id] # k}

\* C15: for distinct users A and B, elag_transactions_<B.id> never holds a
\* transaction that was added, by the form or by a scan, in A's session, also
\* when a scan started by A completes after A has logged out and B has
\* logged in
C15_IsolatedPerUser == \A k \in UUIDs : Foreign(k) = {}

\* C16: whenever no user is logged in and the effects have run, the
\* in-memory list is empty, also when the result of a scan arrives after the
\* logout
C16_EmptyWhenLoggedOut ==
  (Settled /\ IsNull(user)) => transactions = << >>

\* C17: in every settled state the user is non-null exactly when
\* elag_session is present, and then has the id, name and email stored there
C17_UserIsSession ==
  Settled =>
    /\ IsNull(user) <=> IsNull(lsSession)
    /\ ~IsNull(user) =>
         /\ Val(user).id = Val(lsSession).id
         /\ Val(user).name = Val(lsSession).name
         /\ Val(user).email = Val(lsSession).email

\* the page was loaded again with a session in place, after a second account
\* had logged in
C17_Witness ==
  /\ Settled
  /\ event.op = "mount"
  /\ ~IsNull(user)
  /\ Len(StoredUsers) = 2
  /\ Val(user).id = StoredUsers[2].id
  /\ Val(lsSession).email = StoredUsers[2].email

\* res is txs without the rows whose id is id: the other rows, in the order
\* they had
RemovedOnly(txs, res, id) ==
  LET Kept == {i \in 1..Len(txs) : txs[i].id # id}
  IN  /\ Len(res) = Cardinality(Kept)
      /\ \A i \in Kept : res[Cardinality({j \in Kept : j <= i})] = txs[i]

\* the lists deleteTransaction is tried on: the list of the state, and its
\* first rows listed twice (every id occurs twice)
FirstRows(txs) == SubSeq(txs, 1, IF Len(txs) < 2 THEN Len(txs) ELSE 2)
ListsTried ==
  {transactions, FirstRows(transactions) \o FirstRows(transactions)}

\* a handler called deleteTransaction / addTransaction in this step
DeleteStep == Settled /\ txDirty' /\ event'.op = "delete"
AddStep == Settled /\ txDirty' /\ event'.adds = 1

\* C18: deleteTransaction(id) removes every transaction with that id and
\* nothing else, the others keep their order, and an id that is not in the
\* list changes nothing; addTransaction(t) appends t and leaves the other
\* transactions as they are
C18_DeleteAndAddFrame ==
  /\ [](\A txs \in ListsTried : \A id \in Ids(txs) \cup {0} :
          /\ RemovedOnly(txs, FilterOut(txs, id), id)
          /\ id \notin Ids(txs) => FilterOut(txs, id) = txs)
  /\ [][DeleteStep =>
          /\ RemovedOnly(transactions, transactions', event'.input)
          /\ event'.input \notin Ids(transactions')]_vars
  /\ [][AddStep =>
          /\ Len(transactions') = Len(transactions) + 1
          /\ SubSeq(transactions', 1, Len(transactions)) = transactions
          /\ Last(transactions').id = RandomUUID(uuid')
          /\ Last(transactions').merchant = event'.input.merchant
          /\ Last(transactions').amount = event'.input.amount]_vars

\* a row from the middle of the list was deleted after a row had been added
C18_Witness ==
  /\ event.op = "delete"
  /\ txDirty
  /\ Len(transactions) = Len(INITIAL_TRANSACTIONS)
  /\ event.input = 4
  /\ transactions[3].id = 3
  /\ transactions[4].id = 5
  /\ Last(transactions).description = "Manual Entry"

====
